---- MODULE Spec2Model ----
(***************************************************************************)
(* Token-entitlement and deduction engine of the chat backend:             *)
(*   src/backend/src/auth.ts   deductTokens, addTokens, the reset checks   *)
(*   src/unnamed/part_004      the Database class (users, transactions)    *)
(*   src/unnamed/part_003      the Stripe webhook handlers                 *)
(*   src/unnamed/part_002      the HTTP handlers (GET /api/me, /api/chat)  *)
(*                                                                         *)
(* The stored state is the users row of one account and the                *)
(* token_transactions table.  Every request is a process that advances     *)
(* from one awaited storage call to the next; a step is one storage call   *)
(* together with the synchronous code that leads to it.  Time is a tick    *)
(* counter over a calendar of equal months; every date is an instant on    *)
(* that axis (one time zone).                                              *)
(***************************************************************************)
EXTENDS Integers, Sequences, FiniteSets, TLC

\* ------------------------------------------------------------------ bounds
TicksPerDay == 2
DaysPerMonth == 2
ExtraTicks == 0
MaxTx == 3
MaxTxOverlap == 2
MaxThrows == 1

\* ------------------------------------------------------- program constants
MonthsPerYear == 12
MONTHLY_TOKENS == 10000
RESET_DAY == 1
DAILY_TOKENS == 30000
Epoch == 0

TicksPerMonth == TicksPerDay * DaysPerMonth
TicksPerYear == TicksPerMonth * MonthsPerYear

Procs == {1, 2}
UserIds == {1}
CallIds == {1, 2}
Costs == {4000, 10000, 30000, 30001}
OverlapCosts == {4000, 10000}
Amounts == {10000}

\* A nullable column or an optional value: <<>> is NULL/undefined, <<v>> is v.
Null == <<>>
Some(v) == <<v>>
IsNull(o) == o = <<>>
Val(o) == o[1]

\* ------------------------------------------------------------ calendar
getFullYear(t) == t \div TicksPerYear
getMonth(t) == (t % TicksPerYear) \div TicksPerMonth
getDate(t) == ((t % TicksPerMonth) \div TicksPerDay) + 1

\* new Date(year, monthIndex, day): a month index past 11 carries into the year.
NewDate(y, m, d) == (y * MonthsPerYear + m) * TicksPerMonth + (d - 1) * TicksPerDay

\* date('now', '+1 month'): the date (no time of day) one month ahead.
DatePlusOneMonth(t) == NewDate(getFullYear(t), getMonth(t) + 1, getDate(t))

\* The account was created on the last day of November of year 0.  With one
\* call at a time the clock runs from the first of December to the first of
\* January, so that a monthly rollover in December (into the next year) and
\* one in January are both within reach; with overlapping calls it runs from
\* the evening before the first rollover to the evening after it.
CreatedAt == NewDate(0, MonthsPerYear - 2, DaysPerMonth)
StartNow(m) ==
  IF m = "seq" THEN NewDate(0, MonthsPerYear - 1, 1)
  ELSE DatePlusOneMonth(CreatedAt) - 1
MaxNow(m) ==
  IF m = "seq" THEN NewDate(1, 0, 1) + ExtraTicks
  ELSE DatePlusOneMonth(CreatedAt) + TicksPerDay - 1 + ExtraTicks

\* ------------------------------------------------------------ state
\* now     the wall clock read by new Date()
\* users   the users table: account id -> row (NULL if there is no such row)
\* ledger  the token_transactions table in insertion order
\* proc    the requests in flight: position, arguments, local variables, result
\* hist    what a lone call saw when it started, whether a storage call of it
\*         threw, the credit that came right before it, and what has been
\*         charged to the daily and monthly buckets (mode "seq" only)
\* mode    "seq": at most one call in flight; "overlap": two concurrent requests
VARIABLES now, users, ledger, proc, hist, mode
vars == <<now, users, ledger, proc, hist, mode>>

\* Variant of the column defaults: the first monthly reset falls on the creation date.
NewUserRow_ResetAtCreation(t) ==
  [ subscriptionStatus |-> "free",
    tokensRemaining |-> 0,
    totalTokensUsed |-> 0,
    freeTokensUsedThisMonth |-> 0,
    freeTokensResetDate |-> t,
    dailyTokenLimit |-> Null,
    lastDailyReset |-> Null ]

\* part_004:69-87  the column defaults of the users table
NewUserRow(t) ==
  [ subscriptionStatus |-> "free",
    tokensRemaining |-> 0,
    totalTokensUsed |-> 0,
    freeTokensUsedThisMonth |-> 0,
    freeTokensResetDate |-> DatePlusOneMonth(t),
    dailyTokenLimit |-> Null,
    lastDailyReset |-> Null ]

getUserById(id) == IF id \in DOMAIN users THEN users[id] ELSE Null

Transaction(uid, type, amount, description, model, stripePaymentId) ==
  [ userId |-> uid, type |-> type, amount |-> amount, description |-> description,
    model |-> model, stripePaymentId |-> stripePaymentId ]

IdleProc ==
  [ op |-> "none", pc |-> "idle", userId |-> 0, tokens |-> 0,
    user |-> Null, dailyCheck |-> Null, res |-> Null, req |-> Null ]

NoHist ==
  [ pre |-> Null, tx0 |-> 0, nowF |-> Null, nowD |-> Null, threw |-> FALSE, prev |-> Null,
    throws |-> 0, dayCharged |-> 0, monthCharged |-> 0 ]

Result(success, error, remainingTokens, freeTokensLeft, tokenSource, newBalance) ==
  [ success |-> success, error |-> error, remainingTokens |-> remainingTokens,
    freeTokensLeft |-> freeTokensLeft, tokenSource |-> tokenSource,
    newBalance |-> newBalance ]

\* An error string, and a template string with one interpolated number.
Message(text) == <<text>>
MessageWith(before, n, after) == <<before, n, after>>

Failure(error) == Result(FALSE, error, Null, Null, "", Null)

\* The account as createUser leaves it, and the same account after one token
\* purchase (addTokens, then subscriptionStatus = 'paid_tokens').
FreshAccount == NewUserRow(CreatedAt)
PaidAccount == [FreshAccount EXCEPT !.tokensRemaining = 10000,
                                    !.subscriptionStatus = "paid_tokens"]
FirstPurchase == Transaction(1, "purchase", 10000, "Token purchase", Null, Some("pi_0"))

InitIn(m, account, txs) ==
  /\ mode = m
  /\ now = StartNow(m)
  /\ users = [u \in UserIds |-> Some(account)]
  /\ ledger = txs
  /\ proc = [p \in Procs |-> IdleProc]
  /\ hist = [p \in Procs |-> NoHist]

\* Overlapping requests start from the new account or from the account that
\* has bought tokens once; single calls start from the new account.
Init == InitIn("overlap", FreshAccount, << >>) \/ InitIn("overlap", PaidAccount, <<FirstPurchase>>)
InitSeq == InitIn("seq", FreshAccount, << >>)

InFlight(p) == proc[p].pc \notin {"idle", "done"}
Idle(p) == proc[p].pc = "idle"
Quiescent == \A p \in Procs : Idle(p)
\* A call that may append a transaction starts only while the ledger has room
\* (the purchase made before Init is not counted).
TxBound == IF mode = "seq" THEN MaxTx ELSE MaxTxOverlap
Appended == Len(SelectSeq(ledger, LAMBDA t : t # FirstPurchase))
CanStart(p) ==
  /\ Idle(p)
  /\ Appended + Cardinality({q \in Procs : InFlight(q)}) < TxBound

\* The call returns r: its local variables go out of scope.
Finish(p, r) ==
  proc' = [proc EXCEPT ![p].pc = "done", ![p].res = Some(r),
                       ![p].user = Null, ![p].dailyCheck = Null]

\* Variant: a missing user is not checked for and ends in the catch block.
Begin_NullDereference(p, op, pc, u, n, got) ==
  /\ proc' = [proc EXCEPT ![p] =
        IF IsNull(got)
        THEN [IdleProc EXCEPT !.op = op, !.pc = "done", !.userId = u, !.tokens = n,
                              !.res = Some(Failure(Message("Failed to deduct tokens")))]
        ELSE [IdleProc EXCEPT !.op = op, !.pc = pc, !.userId = u, !.tokens = n,
                              !.user = got]]
  /\ hist' = IF mode = "seq"
             THEN [hist EXCEPT ![p] = [NoHist EXCEPT !.pre = got, !.tx0 = Len(ledger),
                                                     !.prev = hist[p].prev,
                                                     !.throws = hist[p].throws,
                                                     !.dayCharged = hist[p].dayCharged,
                                                     !.monthCharged = hist[p].monthCharged]]
             ELSE hist

\* The first statement of an engine or handler: the loaded row, or not-found.
Begin(p, op, pc, u, n, got) ==
  /\ proc' = [proc EXCEPT ![p] =
        IF IsNull(got)
        THEN [IdleProc EXCEPT !.op = op, !.pc = "done", !.userId = u, !.tokens = n,
                              !.res = Some(Failure(Message("User not found")))]
        ELSE [IdleProc EXCEPT !.op = op, !.pc = pc, !.userId = u, !.tokens = n,
                              !.user = got]]
  /\ hist' = IF mode = "seq"
             THEN [hist EXCEPT ![p] = [NoHist EXCEPT !.pre = got, !.tx0 = Len(ledger),
                                                     !.prev = hist[p].prev,
                                                     !.throws = hist[p].throws,
                                                     !.dayCharged = hist[p].dayCharged,
                                                     !.monthCharged = hist[p].monthCharged]]
             ELSE hist

SawF(p) == hist' = IF mode = "seq" THEN [hist EXCEPT ![p].nowF = Some(now)] ELSE hist
SawD(p) == hist' = IF mode = "seq" THEN [hist EXCEPT ![p].nowD = Some(now)] ELSE hist
\* What has been charged to the daily bucket since midnight and to the monthly
\* bucket since its last reset, with one call at a time.
SawFreeReset(p) ==
  hist' = IF mode = "seq" THEN [hist EXCEPT ![p].nowF = Some(now), ![p].monthCharged = 0]
          ELSE hist
ChargedDaily(p, c) ==
  hist' = IF mode = "seq" THEN [hist EXCEPT ![p].dayCharged = @ + c] ELSE hist
ChargedMonthly(p, c) ==
  hist' = IF mode = "seq" THEN [hist EXCEPT ![p].monthCharged = @ + c] ELSE hist

\* ------------------------------------------------------------ environment
Tick ==
  /\ now < MaxNow(mode)
  /\ now' = now + 1
  /\ hist' = IF mode = "seq" /\ (now + 1) \div TicksPerDay > now \div TicksPerDay
             THEN [p \in Procs |-> [hist[p] EXCEPT !.dayCharged = 0]]
             ELSE hist
  /\ UNCHANGED <<users, ledger, proc, mode>>

\* ------------------------------------------------------------ reset checks
\* checkAndResetFreeTier: is the monthly rollover due for row r at time t.
FreeResetDue(r, t) == t >= r.freeTokensResetDate

\* Variants of the next reset date: the first of the current month, and the
\* next month index without the carry into the year.
NextResetDate_ThisMonth(t) == NewDate(getFullYear(t), getMonth(t), RESET_DAY)
NextResetDate_NoYearCarry(t) ==
  NewDate(getFullYear(t), (getMonth(t) + 1) % MonthsPerYear, RESET_DAY)

NextResetDate(t) == NewDate(getFullYear(t), getMonth(t) + 1, RESET_DAY)

\* Variant of the monthly reset: the date advances, the used count stays.
FreeResetRow_KeepsUsed(r, t) ==
  [r EXCEPT !.freeTokensResetDate = NextResetDate(t)]

\* The UPDATE of checkAndResetFreeTier applied to the stored row.
FreeResetRow(r, t) ==
  [r EXCEPT !.freeTokensUsedThisMonth = 0, !.freeTokensResetDate = NextResetDate(t)]

\* checkDailyLimit: midnight of the day of t, and the last reset (epoch if unset).
Today(t) == NewDate(getFullYear(t), getMonth(t), getDate(t))
LastReset(r) == IF IsNull(r.lastDailyReset) THEN Epoch ELSE Val(r.lastDailyReset)
\* Variant of the daily check: a reset made today counts as due again.
DailyResetDue_NotStrict(r, t) == Today(t) >= LastReset(r)

DailyResetDue(r, t) == Today(t) > LastReset(r)

\* Variant: user.dailyTokenLimit || 30000
DailyTokensLeft_DefaultCap(r) ==
  IF IsNull(r.dailyTokenLimit) \/ r.dailyTokenLimit = Some(0) THEN DAILY_TOKENS
  ELSE Val(r.dailyTokenLimit)

\* user.dailyTokenLimit || 0
DailyTokensLeft(r) == IF IsNull(r.dailyTokenLimit) THEN 0 ELSE Val(r.dailyTokenLimit)

\* Variant of the daily reset: the unused allowance is carried into the new day.
DailyResetRow_CarryOver(r, t) ==
  [r EXCEPT !.dailyTokenLimit = Some(DailyTokensLeft(r) + DAILY_TOKENS),
            !.lastDailyReset = Some(Today(t))]

\* Variant of the daily reset: the purchased balance is cleared with it.
DailyResetRow_ClearsBalance(r, t) ==
  [r EXCEPT !.dailyTokenLimit = Some(DAILY_TOKENS), !.lastDailyReset = Some(Today(t)),
            !.tokensRemaining = 0]

\* The UPDATE of checkDailyLimit applied to the stored row.
DailyResetRow(r, t) ==
  [r EXCEPT !.dailyTokenLimit = Some(DAILY_TOKENS), !.lastDailyReset = Some(Today(t))]

\* An UPDATE ... WHERE id = uid: the stored row of uid becomes row, nothing if
\* there is no such row.
StoredRow(uid) == Val(users[uid])
UpdateRow(uid, row) ==
  users' = [users EXCEPT ![uid] = IF IsNull(@) THEN @ ELSE Some(row)]

\* ------------------------------------------------------------ deductTokens
\* auth.ts:217-220  let user = await db.getUserById(userId)
StartDeduct(p, u, c) ==
  /\ CanStart(p)
  /\ Begin(p, "deduct", "d_free", u, c, getUserById(u))
  /\ UNCHANGED <<now, users, ledger, mode>>

\* auth.ts:223, 166-176  checkAndResetFreeTier up to its UPDATE
DeductFreeCheck(p) ==
  /\ proc[p].pc = "d_free"
  /\ LET user == Val(proc[p].user)
         reset(r) == FreeResetRow(r, now) IN
     IF FreeResetDue(user, now)
     THEN /\ UpdateRow(proc[p].userId, reset(StoredRow(proc[p].userId)))
          /\ proc' = [proc EXCEPT ![p].pc = "d_reget"]
          /\ SawFreeReset(p)
     ELSE /\ users' = users
          /\ proc' = [proc EXCEPT ![p].pc = "d_branch"]
          /\ SawF(p)
  /\ UNCHANGED <<now, ledger, mode>>

\* auth.ts:179-180  const updatedUser = await db.getUserById(user.id); return updatedUser || user
DeductReget(p) ==
  /\ proc[p].pc = "d_reget"
  /\ LET got == getUserById(proc[p].userId) IN
     proc' = [proc EXCEPT ![p].pc = "d_branch",
                          ![p].user = IF IsNull(got) THEN @ ELSE got]
  /\ UNCHANGED <<now, users, ledger, hist, mode>>

\* auth.ts:226-227, 187-207  checkDailyLimit for a premium_monthly user
DeductDailyCheck(p) ==
  /\ proc[p].pc = "d_branch"
  /\ Val(proc[p].user).subscriptionStatus = "premium_monthly"
  /\ LET user == Val(proc[p].user)
         reset(r) == DailyResetRow(r, now) IN
     IF DailyResetDue(user, now)
     THEN /\ UpdateRow(proc[p].userId, reset(StoredRow(proc[p].userId)))
          /\ proc' = [proc EXCEPT ![p].pc = "d_prem",
                 ![p].dailyCheck = Some([canUse |-> TRUE, tokensAvailable |-> DAILY_TOKENS])]
     ELSE /\ users' = users
          /\ proc' = [proc EXCEPT ![p].pc = "d_prem",
                 ![p].dailyCheck = Some([canUse |-> DailyTokensLeft(user) > 0,
                                         tokensAvailable |-> DailyTokensLeft(user)])]
  /\ SawD(p)
  /\ UNCHANGED <<now, ledger, mode>>

\* Variant of the premium UPDATE: the purchased balance is overwritten as well.
SetDailyLimit_ViaTokens(r, v) ==
  [r EXCEPT !.dailyTokenLimit = Some(v), !.tokensRemaining = v]

\* The UPDATE users SET dailyTokenLimit = ? of the premium branch.
SetDailyLimit(r, v) == [r EXCEPT !.dailyTokenLimit = Some(v)]

\* Variant of the premium refusals: the cost is not compared with the allowance.
PremiumRefusal_NoExceedCheck(dailyCheck, tokensToDeduct) ==
  IF ~dailyCheck.canUse
  THEN Some(Failure(Message("Daily token limit reached. Resets tomorrow!")))
  ELSE Null

\* Variant of the premium refusals: the message names the cost, not the allowance.
PremiumRefusal_ReportsCost(dailyCheck, tokensToDeduct) ==
  IF ~dailyCheck.canUse
  THEN Some(Failure(Message("Daily token limit reached. Resets tomorrow!")))
  ELSE IF tokensToDeduct > dailyCheck.tokensAvailable
  THEN Some(Failure(MessageWith("Daily limit exceeded. ", tokensToDeduct,
                                 " tokens available today.")))
  ELSE Null

\* auth.ts:228-241  premium branch: the two refusals, else newDailyLimit and its UPDATE
PremiumRefusal(dailyCheck, tokensToDeduct) ==
  IF ~dailyCheck.canUse
  THEN Some(Failure(Message("Daily token limit reached. Resets tomorrow!")))
  ELSE IF tokensToDeduct > dailyCheck.tokensAvailable
  THEN Some(Failure(MessageWith("Daily limit exceeded. ", dailyCheck.tokensAvailable,
                                 " tokens available today.")))
  ELSE Null

DeductPremium(p) ==
  /\ proc[p].pc = "d_prem"
  /\ LET dailyCheck == Val(proc[p].dailyCheck)
         tokensToDeduct == proc[p].tokens
         refusal == PremiumRefusal(dailyCheck, tokensToDeduct)
         newDailyLimit == dailyCheck.tokensAvailable - tokensToDeduct
         upd(r) == SetDailyLimit(r, newDailyLimit) IN
     IF ~IsNull(refusal)
     THEN /\ Finish(p, Val(refusal))
          /\ UNCHANGED <<users, hist>>
     ELSE /\ UpdateRow(proc[p].userId, upd(StoredRow(proc[p].userId)))
          /\ proc' = [proc EXCEPT ![p].pc = "d_tx",
                 ![p].res = Some(Result(TRUE, Null, Some(newDailyLimit), Null,
                                        "premium_daily", Null))]
          /\ ChargedDaily(p, tokensToDeduct)
  /\ UNCHANGED <<now, ledger, mode>>

\* Variant of the free UPDATE: the new value is added to the stored one.
SetFreeUsed_Increment(r, v) == [r EXCEPT !.freeTokensUsedThisMonth = @ + v]

\* The UPDATE users SET freeTokensUsedThisMonth = ? of the free branch.
SetFreeUsed(r, v) == [r EXCEPT !.freeTokensUsedThisMonth = v]

\* Variants of the free refusals: a strict comparison, and a deduction allowed
\* whenever any quota is left.
FreeRefusal_Strict(freeTokensLeft, tokensToDeduct) ==
  IF freeTokensLeft > tokensToDeduct
  THEN Null
  ELSE IF freeTokensLeft > 0
  THEN Some(Result(FALSE, MessageWith("Only ", freeTokensLeft,
                                      " free tokens left this month. Upgrade for more!"),
                   Null, Some(freeTokensLeft), "", Null))
  ELSE Some(Result(FALSE, Message("Free monthly limit reached. Upgrade for more tokens!"),
                   Null, Some(0), "", Null))
FreeRefusal_AnyLeft(freeTokensLeft, tokensToDeduct) ==
  IF freeTokensLeft > 0
  THEN Null
  ELSE Some(Result(FALSE, Message("Free monthly limit reached. Upgrade for more tokens!"),
                   Null, Some(0), "", Null))

\* Variant of the free refusals: every refusal is the quota-exhausted one.
FreeRefusal_OneError(freeTokensLeft, tokensToDeduct) ==
  IF freeTokensLeft >= tokensToDeduct
  THEN Null
  ELSE Some(Result(FALSE, Message("Free monthly limit reached. Upgrade for more tokens!"),
                   Null, Some(0), "", Null))

\* auth.ts:260-295  free branch: is the quota enough, and the two refusals
FreeRefusal(freeTokensLeft, tokensToDeduct) ==
  IF freeTokensLeft >= tokensToDeduct
  THEN Null
  ELSE IF freeTokensLeft > 0
  THEN Some(Result(FALSE, MessageWith("Only ", freeTokensLeft,
                                      " free tokens left this month. Upgrade for more!"),
                   Null, Some(freeTokensLeft), "", Null))
  ELSE Some(Result(FALSE, Message("Free monthly limit reached. Upgrade for more tokens!"),
                   Null, Some(0), "", Null))

\* auth.ts:259-296  free branch up to its UPDATE
DeductFree(p) ==
  /\ proc[p].pc = "d_branch"
  /\ Val(proc[p].user).subscriptionStatus = "free"
  /\ LET user == Val(proc[p].user)
         tokensToDeduct == proc[p].tokens
         freeTokensLeft == MONTHLY_TOKENS - user.freeTokensUsedThisMonth
         refusal == FreeRefusal(freeTokensLeft, tokensToDeduct)
         newFreeUsed == user.freeTokensUsedThisMonth + tokensToDeduct
         upd(r) == SetFreeUsed(r, newFreeUsed) IN
     IF ~IsNull(refusal)
     THEN /\ Finish(p, Val(refusal))
          /\ UNCHANGED <<users, hist>>
     ELSE /\ UpdateRow(proc[p].userId, upd(StoredRow(proc[p].userId)))
          /\ proc' = [proc EXCEPT ![p].pc = "d_tx",
                 ![p].res = Some(Result(TRUE, Null, Null, Some(MONTHLY_TOKENS - newFreeUsed),
                                        "free_monthly", Null))]
          /\ ChargedMonthly(p, tokensToDeduct)
  /\ UNCHANGED <<now, ledger, mode>>

\* Variant of updateUserTokens: the two values are bound to the wrong columns.
updateUserTokens_Swapped(r, tokensRemaining, totalTokensUsed) ==
  [r EXCEPT !.tokensRemaining = totalTokensUsed, !.totalTokensUsed = tokensRemaining]

\* Database.updateUserTokens applied to the stored row.
updateUserTokens(r, tokensRemaining, totalTokensUsed) ==
  [r EXCEPT !.tokensRemaining = tokensRemaining, !.totalTokensUsed = totalTokensUsed]

\* Variant of the purchased-token refusal: only an empty balance is refused.
PaidRefusal_OnlyWhenEmpty(tokensRemaining, tokensToDeduct) ==
  IF tokensRemaining <= 0
  THEN Some(Failure(Message("Insufficient purchased tokens")))
  ELSE Null

\* Variant of the purchased-token refusal: a cost equal to the balance is refused.
PaidRefusal_Strict(tokensRemaining, tokensToDeduct) ==
  IF tokensRemaining <= tokensToDeduct
  THEN Some(Failure(Message("Insufficient purchased tokens")))
  ELSE Null

\* auth.ts:299-301  the refusal of the purchased-token branch
PaidRefusal(tokensRemaining, tokensToDeduct) ==
  IF tokensRemaining < tokensToDeduct
  THEN Some(Failure(Message("Insufficient purchased tokens")))
  ELSE Null

\* auth.ts:298-306  purchased-token branch up to updateUserTokens
DeductPaid(p) ==
  /\ proc[p].pc = "d_branch"
  /\ Val(proc[p].user).subscriptionStatus \notin {"premium_monthly", "free"}
  /\ LET user == Val(proc[p].user)
         tokensToDeduct == proc[p].tokens
         refusal == PaidRefusal(user.tokensRemaining, tokensToDeduct)
         newTokensRemaining == user.tokensRemaining - tokensToDeduct
         newTotalUsed == user.totalTokensUsed + tokensToDeduct
         upd(r) == updateUserTokens(r, newTokensRemaining, newTotalUsed) IN
     IF ~IsNull(refusal)
     THEN /\ Finish(p, Val(refusal))
          /\ users' = users
     ELSE /\ UpdateRow(proc[p].userId, upd(StoredRow(proc[p].userId)))
          /\ proc' = [proc EXCEPT ![p].pc = "d_tx",
                 ![p].res = Some(Result(TRUE, Null, Some(newTokensRemaining), Null,
                                        "purchased", Null))]
  /\ UNCHANGED <<now, ledger, hist, mode>>

\* The description deductTokens records: suffixed on the free branch.
UsageDescription(source) == IF source = "free_monthly" THEN "Chat (Free Tier)" ELSE "Chat"

\* part_002:440, 447  model || 'qwen-turbo' (an absent model is the empty string here)
ModelOrDefault(model) == IF model = "" THEN "qwen-turbo" ELSE model

\* The model a deduction is recorded under: the one of the chat request that
\* made the call, 'qwen-turbo' for a call made without a request.
UsageModel(p) ==
  IF IsNull(proc[p].req) THEN "qwen-turbo" ELSE ModelOrDefault(Val(proc[p].req).model)

\* Variant of the usage row: the amount is recorded unsigned.
UsageTx_Unsigned(p) ==
  Transaction(proc[p].userId, "usage", proc[p].tokens,
              UsageDescription(Val(proc[p].res).tokenSource), Some(UsageModel(p)), Null)

\* The row addTokenTransaction inserts for a deduction.
UsageTx(p) ==
  Transaction(proc[p].userId, "usage", 0 - proc[p].tokens,
              UsageDescription(Val(proc[p].res).tokenSource), Some(UsageModel(p)), Null)

\* Variant of the usage INSERT: the newest row is replaced instead of a row added.
DeductTx_Overwrite(p) ==
  /\ proc[p].pc = "d_tx"
  /\ ledger' = IF ledger = << >> THEN <<UsageTx(p)>>
                ELSE [ledger EXCEPT ![Len(ledger)] = UsageTx(p)]
  /\ Finish(p, Val(proc[p].res))
  /\ UNCHANGED <<now, users, hist, mode>>

\* auth.ts:243-255, 270-282, 308-320  addTokenTransaction('usage', -tokensToDeduct) and return
DeductTx(p) ==
  /\ proc[p].pc = "d_tx"
  /\ ledger' = Append(ledger, UsageTx(p))
  /\ Finish(p, Val(proc[p].res))
  /\ UNCHANGED <<now, users, hist, mode>>

\* ------------------------------------------------------------ addTokens
\* part_003:235-240  handleSuccessfulPayment calls addTokens for a token purchase;
\* auth.ts:335-338  const user = await db.getUserById(userId)
StartAdd(p, u, a) ==
  /\ CanStart(p)
  /\ Begin(p, "add", "a_upd", u, a, getUserById(u))
  /\ UNCHANGED <<now, users, ledger, mode>>

\* auth.ts:340-342  updateUserTokens(userId, user.tokensRemaining + tokensToAdd, user.totalTokensUsed)
AddUpdate(p) ==
  /\ proc[p].pc = "a_upd"
  /\ LET user == Val(proc[p].user)
         newTokensRemaining == user.tokensRemaining + proc[p].tokens
         upd(r) == updateUserTokens(r, newTokensRemaining, user.totalTokensUsed) IN
     /\ UpdateRow(proc[p].userId, upd(StoredRow(proc[p].userId)))
     /\ proc' = [proc EXCEPT ![p].pc = "a_tx",
            ![p].res = Some(Result(TRUE, Null, Null, Null, "", Some(newTokensRemaining)))]
  /\ UNCHANGED <<now, ledger, hist, mode>>

\* The stripePaymentId argument: session.payment_intent of the checkout session.
PaymentIntent == Some("pi_1")

\* Variant of the credit row: the payment reference is dropped.
PurchaseTx_NoRef(p) ==
  Transaction(proc[p].userId, "purchase", proc[p].tokens, "Token purchase", Null, Null)

\* The row addTokenTransaction inserts for a credit.
PurchaseTx(p) ==
  Transaction(proc[p].userId, "purchase", proc[p].tokens, "Token purchase", Null, PaymentIntent)

\* auth.ts:345-354  addTokenTransaction('purchase', tokensToAdd, ..., stripePaymentId);
\* addTokens returns its result to handleSuccessfulPayment
AddTx(p) ==
  /\ proc[p].pc = "a_tx"
  /\ ledger' = Append(ledger, PurchaseTx(p))
  /\ proc' = [proc EXCEPT ![p].pc = "w_status", ![p].user = Null]
  /\ UNCHANGED <<now, users, hist, mode>>

\* ------------------------------------------------------------ Stripe webhooks
SetStatus(r, status) == [r EXCEPT !.subscriptionStatus = status]

\* part_003:242-247  after a successful addTokens: subscriptionStatus = 'paid_tokens'
PurchaseStatus(p) ==
  /\ proc[p].pc = "w_status"
  /\ LET upd(r) == SetStatus(r, "paid_tokens") IN
     UpdateRow(proc[p].userId, upd(StoredRow(proc[p].userId)))
  /\ Finish(p, Val(proc[p].res))
  /\ UNCHANGED <<now, ledger, hist, mode>>

\* The UPDATE of a subscription payment: a full allowance, stamped with the current time.
GrantDaily(r, t) ==
  [r EXCEPT !.dailyTokenLimit = Some(DAILY_TOKENS), !.lastDailyReset = Some(t)]

\* part_003:209-214  checkout.session.completed for the premium_monthly plan
ActivatePremium(u) ==
  /\ mode = "seq" => Quiescent
  /\ ~IsNull(users[u])
  /\ LET upd(r) == GrantDaily(SetStatus(r, "premium_monthly"), now) IN UpdateRow(u, upd(StoredRow(u)))
  /\ UNCHANGED <<now, ledger, proc, hist, mode>>

\* The UPDATE of a cancelled subscription.
RevertToFree(r) ==
  [r EXCEPT !.subscriptionStatus = "free", !.dailyTokenLimit = Null, !.lastDailyReset = Null]

\* part_003:326-337  customer.subscription.deleted
CancelSubscription(u) ==
  /\ mode = "seq" => Quiescent
  /\ ~IsNull(users[u])
  /\ Val(users[u]).subscriptionStatus # "free"
  /\ UpdateRow(u, RevertToFree(StoredRow(u)))
  /\ UNCHANGED <<now, ledger, proc, hist, mode>>

\* part_003:303-308  invoice.payment_succeeded: getUserByEmail
StartRenew(p, u) ==
  /\ Idle(p)
  /\ ~IsNull(getUserById(u))
  /\ Begin(p, "renew", "r_upd", u, 0, getUserById(u))
  /\ UNCHANGED <<now, users, ledger, mode>>

\* part_003:309-316  a premium_monthly user gets dailyTokenLimit = 30000, lastDailyReset = now
RenewUpdate(p) ==
  /\ proc[p].pc = "r_upd"
  /\ LET user == Val(proc[p].user)
         upd(r) == GrantDaily(r, now) IN
     IF user.subscriptionStatus = "premium_monthly"
     THEN UpdateRow(proc[p].userId, upd(StoredRow(proc[p].userId)))
     ELSE users' = users
  /\ proc' = [proc EXCEPT ![p].pc = "done", ![p].user = Null]
  /\ UNCHANGED <<now, ledger, hist, mode>>

\* ------------------------------------------------------------ GET /api/me
Max(a, b) == IF a >= b THEN a ELSE b

\* part_002:211-235  availableTokens and tokenSource computed from req.user
MeResponse(user) ==
  IF user.subscriptionStatus = "free"
  THEN [availableTokens |-> Max(0, MONTHLY_TOKENS - user.freeTokensUsedThisMonth),
        tokenSource |-> "free_monthly"]
  ELSE IF user.subscriptionStatus = "premium_monthly"
  THEN [availableTokens |-> DailyTokensLeft(user), tokenSource |-> "premium_daily"]
  ELSE IF user.subscriptionStatus = "paid_tokens"
  THEN [availableTokens |-> user.tokensRemaining, tokenSource |-> "purchased"]
  ELSE [availableTokens |-> 0, tokenSource |-> "none"]

\* auth.ts:125-131  authenticateUser loads req.user (a missing user is answered 401)
StartMe(p, u) ==
  /\ Idle(p)
  /\ ~IsNull(getUserById(u))
  /\ Begin(p, "me", "m_resp", u, 0, getUserById(u))
  /\ UNCHANGED <<now, users, ledger, mode>>

\* part_002:207-250  getUserTokenTransactions, then the response built from req.user
MeRespond(p) ==
  /\ proc[p].pc = "m_resp"
  /\ proc' = [proc EXCEPT ![p].pc = "done", ![p].user = Null,
                          ![p].res = Some(MeResponse(Val(proc[p].user)))]
  /\ SawF(p)
  /\ UNCHANGED <<now, users, ledger, mode>>

\* ------------------------------------------------------------ calculateTokenCost
\* auth.ts:14-72  the cost per request of each known model
MODEL_COSTS ==
  ("qwen-turbo" :> 1)
  @@ ("qwen-vl-plus" :> 2)
  @@ ("qwen-vl-max" :> 3)
  @@ ("qwen-32b-chat" :> 2)
  @@ ("gpt-4" :> 8)
  @@ ("gpt-4-turbo" :> 6)
  @@ ("gpt-4o" :> 5)
  @@ ("gpt-3.5-turbo" :> 2)
  @@ ("claude-3-opus-20240229" :> 10)
  @@ ("claude-3-sonnet-20240229" :> 6)
  @@ ("claude-3-haiku-20240307" :> 3)
  @@ ("claude-3-5-sonnet-20240620" :> 7)
  @@ ("gemini-pro" :> 4)
  @@ ("gemini-pro-vision" :> 5)
  @@ ("gemini-1.5-pro" :> 6)
  @@ ("gemini-1.5-flash" :> 3)
  @@ ("deepseek-chat" :> 2)
  @@ ("deepseek-coder" :> 3)
  @@ ("deepseek-math" :> 3)
  @@ ("anthropic/claude-3-opus" :> 10)
  @@ ("anthropic/claude-3-sonnet" :> 6)
  @@ ("anthropic/claude-3-haiku" :> 3)
  @@ ("openai/gpt-4" :> 8)
  @@ ("openai/gpt-4-turbo" :> 6)
  @@ ("openai/gpt-3.5-turbo" :> 2)
  @@ ("google/gemini-pro" :> 4)
  @@ ("google/gemini-pro-vision" :> 5)
  @@ ("meta-llama/llama-3-70b-instruct" :> 4)
  @@ ("meta-llama/llama-3-8b-instruct" :> 2)
  @@ ("mistralai/mixtral-8x7b-instruct" :> 3)
  @@ ("mistralai/mistral-7b-instruct" :> 2)
  @@ ("deepseek/deepseek-chat" :> 2)
  @@ ("deepseek/deepseek-coder" :> 3)
  @@ ("microsoft/wizardlm-2-8x22b" :> 5)

\* Property names MODEL_COSTS inherits from Object.prototype: MODEL_COSTS[name]
\* is then a function or an object, which is truthy and is no number.
ObjectPrototypeKeys == {"constructor", "toString", "valueOf", "hasOwnProperty", "__proto__"}

\* The result of arithmetic on a value that is no number.
NaN == Null

\* Math.ceil(num / den) for non-negative integers
Ceil(num, den) == (num + den - 1) \div den

\* auth.ts:80-84  baseCost = MODEL_COSTS[model] || 2;
\*                Math.max(baseCost, Math.ceil(baseCost * (inputTokens / 100)))
calculateTokenCost(model, inputTokens) ==
  IF model \in DOMAIN MODEL_COSTS
  THEN LET baseCost == IF MODEL_COSTS[model] = 0 THEN 2 ELSE MODEL_COSTS[model]
       IN  Some(Max(baseCost, Ceil(baseCost * inputTokens, 100)))
  ELSE IF model \in ObjectPrototypeKeys
  THEN NaN
  ELSE Some(Max(2, Ceil(2 * inputTokens, 100)))

\* part_002:440  inputText?.length || 100
InputLength(length) == IF length = 0 THEN 100 ELSE length

\* The cost computation on its own: a model name and an input length as the
\* request gives them, then the cost /api/chat computes from them.
CostModels == DOMAIN MODEL_COSTS \cup ObjectPrototypeKeys \cup {"", "unknown-model"}
CostLengths == {0, 1, 50, 99, 100, 101, 149, 150, 151, 200, 250, 1000, 12345, 2000000}

InitCost ==
  /\ mode = "seq"
  /\ now = StartNow("seq")
  /\ users = [u \in UserIds |-> Some(FreshAccount)]
  /\ ledger = << >>
  /\ hist = [p \in Procs |-> NoHist]
  /\ \E model \in CostModels, length \in CostLengths :
        proc = [p \in Procs |->
                  IF p = 1
                  THEN [IdleProc EXCEPT !.op = "cost", !.pc = "c_cost",
                                        !.req = Some([model |-> model, length |-> length])]
                  ELSE IdleProc]

\* part_002:438-440  const tokenCost = calculateTokenCost(model || 'qwen-turbo', inputText?.length || 100)
ApplyCost(p) ==
  /\ proc[p].pc = "c_cost"
  /\ LET req == Val(proc[p].req)
         tokenCost == calculateTokenCost(ModelOrDefault(req.model), InputLength(req.length)) IN
     proc' = [proc EXCEPT ![p].pc = "done", ![p].res = Some([tokenCost |-> tokenCost])]
  /\ UNCHANGED <<now, users, ledger, hist, mode>>

NextCost == ApplyCost(1)

SpecCost == InitCost /\ [][NextCost]_vars

\* ------------------------------------------------------------ registration
\* part_002:109-129, part_004:124-133  POST /api/auth/register -> createUser:
\* the INSERT takes every token field from the column defaults
Register(u) ==
  /\ Quiescent
  /\ IsNull(users[u])
  /\ users' = [users EXCEPT ![u] = Some(NewUserRow(now))]
  /\ UNCHANGED <<now, ledger, proc, hist, mode>>

\* ------------------------------------------------------------ POST /api/chat
\* The requests made: model and input length (costs 4000, 10000, 30000, 30001),
\* and the provider asked for.
ChatInputs ==
  { <<"claude-3-opus-20240229", 40000>>, <<"", 1000000>>,
    <<"gpt-4", 375000>>, <<"claude-3-opus-20240229", 300010>> }
Providers == {"openai", "claude", "openrouter", "qwen"}

\* The request in handling: req.user (0 if none), the body, and the response
\* so far (status 0: none sent yet; forwarded: the provider has been called).
ChatRequest(user, hasMessage, model, length, provider) ==
  [ user |-> user, hasMessage |-> hasMessage, model |-> model, length |-> length,
    provider |-> provider, tokenCost |-> 0, status |-> 0, error |-> Null,
    forwarded |-> FALSE, tokensRemaining |-> Null ]

\* res.status(status).json({ error })
Respond(req, status, error) == [req EXCEPT !.status = status, !.error = error]

\* auth.ts:139-163  optionalAuth: req.user is set only for a valid token whose
\* user exists; nothing else happens and next() is always called
StartChat(p, token, hasMessage, input, provider) ==
  /\ CanStart(p)
  /\ LET got == IF token = 0 THEN Null ELSE getUserById(token)
         user == IF IsNull(got) THEN 0 ELSE token IN
     proc' = [proc EXCEPT ![p] =
        [IdleProc EXCEPT !.op = "chat", !.pc = "c_body", !.userId = user,
                         !.req = Some(ChatRequest(user, hasMessage, input[1], input[2],
                                                  provider))]]
  /\ UNCHANGED <<now, users, ledger, hist, mode>>

\* part_002:464-492  the provider switch: the error of the 400 response, if any
ProviderRefusal(provider, keyConfigured) ==
  IF provider = "openai" THEN Some(Message("Direct OpenAI API temporarily disabled"))
  ELSE IF provider = "claude" THEN Some(Message("Direct Claude API temporarily disabled"))
  ELSE IF provider = "openrouter"
  THEN (IF keyConfigured THEN Null ELSE Some(Message("OpenRouter API key not configured")))
  ELSE (IF keyConfigured THEN Null ELSE Some(Message("Qwen API key not configured")))

\* part_002:464-539  from the provider switch to the awaited provider call
SelectProvider(p, keyConfigured) ==
  LET req == Val(proc[p].req)
      refusal == ProviderRefusal(req.provider, keyConfigured) IN
  IF ~IsNull(refusal)
  THEN proc' = [proc EXCEPT ![p].op = "chat", ![p].pc = "done",
                            ![p].req = Some(Respond(req, 400, refusal))]
  ELSE proc' = [proc EXCEPT ![p].op = "chat", ![p].pc = "c_call",
                            ![p].req = Some([req EXCEPT !.forwarded = TRUE])]

\* part_002:430-449  the body up to the first await: validation, the cost, and
\* for an authenticated user the call of deductTokens (auth.ts:217-220)
ChatBody(p) ==
  /\ proc[p].pc = "c_body"
  /\ LET req == Val(proc[p].req)
         tokenCost == Val(calculateTokenCost(ModelOrDefault(req.model), InputLength(req.length)))
         costed == [req EXCEPT !.tokenCost = tokenCost]
         got == getUserById(req.user) IN
     IF ~req.hasMessage
     THEN /\ proc' = [proc EXCEPT ![p].pc = "done",
                 ![p].req = Some(Respond(req, 400, Some(Message("Message or messages array is required"))))]
          /\ hist' = hist
     ELSE IF req.user = 0
     THEN /\ \E keyConfigured \in BOOLEAN :
               proc' = [proc EXCEPT ![p] =
                  IF ~IsNull(ProviderRefusal(req.provider, keyConfigured))
                  THEN [proc[p] EXCEPT !.pc = "done",
                          !.req = Some(Respond(costed, 400,
                                               ProviderRefusal(req.provider, keyConfigured)))]
                  ELSE [proc[p] EXCEPT !.pc = "c_call",
                          !.req = Some([costed EXCEPT !.forwarded = TRUE])]]
          /\ hist' = hist
     ELSE /\ proc' = [proc EXCEPT ![p] =
               IF IsNull(got)
               THEN [proc[p] EXCEPT !.op = "deduct", !.pc = "done", !.tokens = tokenCost,
                                    !.req = Some(costed),
                                    !.res = Some(Failure(Message("User not found")))]
               ELSE [proc[p] EXCEPT !.op = "deduct", !.pc = "d_free", !.tokens = tokenCost,
                                    !.req = Some(costed), !.user = got]]
          /\ hist' = IF mode = "seq"
                     THEN [hist EXCEPT ![p].pre = got, ![p].tx0 = Len(ledger)]
                     ELSE hist
  /\ UNCHANGED <<now, users, ledger, mode>>

\* Variant: the result of deductTokens is not looked at.
ChatAfterDeduct_IgnoresResult(p) ==
  /\ proc[p].pc = "done" /\ proc[p].op = "deduct"
  /\ ~IsNull(proc[p].req) /\ Val(proc[p].req).status = 0
  /\ \E keyConfigured \in BOOLEAN : SelectProvider(p, keyConfigured)
  /\ UNCHANGED <<now, users, ledger, hist, mode>>

\* part_002:451-458, 464-539  deductTokens has returned: 402 with its error when
\* it failed, else the provider switch
ChatAfterDeduct(p) ==
  /\ proc[p].pc = "done" /\ proc[p].op = "deduct"
  /\ ~IsNull(proc[p].req) /\ Val(proc[p].req).status = 0
  /\ LET req == Val(proc[p].req)
         deductionResult == Val(proc[p].res) IN
     IF ~deductionResult.success
     THEN proc' = [proc EXCEPT ![p].op = "chat",
                               ![p].req = Some(Respond(req, 402, deductionResult.error))]
     ELSE \E keyConfigured \in BOOLEAN : SelectProvider(p, keyConfigured)
  /\ UNCHANGED <<now, users, ledger, hist, mode>>

\* Variant: a failed provider call puts the account back as deductTokens found it.
ChatCall_Refunds(p) ==
  /\ proc[p].pc = "c_call"
  /\ LET req == Val(proc[p].req) IN
     \E answered \in BOOLEAN :
        /\ proc' = [proc EXCEPT ![p] =
              IF ~answered
              THEN [proc[p] EXCEPT !.pc = "done",
                      !.req = Some(Respond(req, 500, Some(Message("Internal server error"))))]
              ELSE IF req.user = 0
              THEN [proc[p] EXCEPT !.pc = "done", !.req = Some(Respond(req, 200, Null))]
              ELSE [proc[p] EXCEPT !.pc = "c_read"]]
        /\ users' = IF ~answered /\ req.user # 0
                    THEN [users EXCEPT ![req.user] = hist[p].pre]
                    ELSE users
  /\ UNCHANGED <<now, ledger, hist, mode>>

\* part_002:534-546, 568-574  the provider answers or fails (500); after an
\* answer the balance of an authenticated user is read for the response
ChatCall(p) ==
  /\ proc[p].pc = "c_call"
  /\ LET req == Val(proc[p].req) IN
     \E answered \in BOOLEAN :
        proc' = [proc EXCEPT ![p] =
           IF ~answered
           THEN [proc[p] EXCEPT !.pc = "done",
                   !.req = Some(Respond(req, 500, Some(Message("Internal server error"))))]
           ELSE IF req.user = 0
           THEN [proc[p] EXCEPT !.pc = "done", !.req = Some(Respond(req, 200, Null))]
           ELSE [proc[p] EXCEPT !.pc = "c_read"]]
  /\ UNCHANGED <<now, users, ledger, hist, mode>>

\* part_002:546, 567  (await db.getUserById(user.id))?.tokensRemaining; res.json(response)
ChatRead(p) ==
  /\ proc[p].pc = "c_read"
  /\ LET req == Val(proc[p].req)
         got == getUserById(req.user) IN
     proc' = [proc EXCEPT ![p].pc = "done",
        ![p].req = Some([Respond(req, 200, Null) EXCEPT
                           !.tokensRemaining = IF IsNull(got) THEN Null
                                               ELSE Some(Val(got).tokensRemaining)])]
  /\ UNCHANGED <<now, users, ledger, hist, mode>>

\* ------------------------------------------------------------ storage failures
\* Does the next step of request p begin with an awaited storage call (a step
\* that refuses, or finds no reset due, makes none).
StorageCallNext(p) ==
  LET user == Val(proc[p].user)
      tokens == proc[p].tokens IN
  CASE proc[p].pc = "d_free" -> FreeResetDue(user, now)
    [] proc[p].pc = "d_branch" ->
         IF user.subscriptionStatus = "premium_monthly" THEN DailyResetDue(user, now)
         ELSE IF user.subscriptionStatus = "free"
         THEN IsNull(FreeRefusal(MONTHLY_TOKENS - user.freeTokensUsedThisMonth, tokens))
         ELSE IsNull(PaidRefusal(user.tokensRemaining, tokens))
    [] proc[p].pc = "d_prem" -> IsNull(PremiumRefusal(Val(proc[p].dailyCheck), tokens))
    [] proc[p].pc \in {"d_reget", "d_tx", "a_upd", "a_tx"} -> TRUE
    [] OTHER -> FALSE

\* Variant of the catch blocks: the failure is reported as a success.
CatchResult_Success(op) ==
  Result(TRUE, Null, Null, Null, "", Null)

\* auth.ts:321-324, 355-358  the catch block of deductTokens and of addTokens
CatchResult(op) ==
  IF op = "deduct"
  THEN Failure(Message("Failed to deduct tokens"))
  ELSE Failure(Message("Failed to add tokens"))

\* Storage calls reject at most MaxThrows times in a behaviour.
MayThrow(p) == hist[p].throws < MaxThrows
Threw(p) ==
  hist' = IF mode = "seq"
          THEN [hist EXCEPT ![p].threw = TRUE, ![p].throws = @ + 1]
          ELSE hist

\* The first getUserById of deductTokens (op "deduct") or addTokens (op "add")
\* rejects: nothing was read, the catch block returns.
StartThrow(p, op, u, n) ==
  /\ CanStart(p)
  /\ MayThrow(p)
  /\ proc' = [proc EXCEPT ![p] =
        [IdleProc EXCEPT !.op = op, !.pc = "done", !.userId = u, !.tokens = n,
                         !.res = Some(CatchResult(op))]]
  /\ hist' = IF mode = "seq"
             THEN [hist EXCEPT ![p] = [NoHist EXCEPT !.pre = getUserById(u),
                                                     !.tx0 = Len(ledger), !.threw = TRUE,
                                                     !.throws = hist[p].throws + 1,
                                                     !.dayCharged = hist[p].dayCharged,
                                                     !.monthCharged = hist[p].monthCharged]]
             ELSE hist
  /\ UNCHANGED <<now, users, ledger, mode>>

\* The storage call request p is about to make rejects without effect: the
\* statements persisted so far stay, the catch block returns.
EngineThrow(p) ==
  /\ proc[p].op \in {"deduct", "add"}
  /\ StorageCallNext(p)
  /\ MayThrow(p)
  /\ Finish(p, CatchResult(proc[p].op))
  /\ Threw(p)
  /\ UNCHANGED <<now, users, ledger, mode>>

\* part_004:165-171  addTokenTransaction has inserted its row and then throws
\* (reading result.lastID, or the SELECT of the new row): the row stays.
TxReadThrow(p) ==
  /\ proc[p].pc \in {"d_tx", "a_tx"}
  /\ MayThrow(p)
  /\ ledger' = Append(ledger, IF proc[p].pc = "d_tx" THEN UsageTx(p) ELSE PurchaseTx(p))
  /\ Finish(p, CatchResult(proc[p].op))
  /\ Threw(p)
  /\ UNCHANGED <<now, users, mode>>

\* part_003:242-254  the status UPDATE after addTokens rejects:
\* handleSuccessfulPayment logs the error and returns.
PurchaseStatusThrow(p) ==
  /\ proc[p].pc = "w_status"
  /\ MayThrow(p)
  /\ Finish(p, Val(proc[p].res))
  /\ hist' = IF mode = "seq" THEN [hist EXCEPT ![p].throws = @ + 1] ELSE hist
  /\ UNCHANGED <<now, users, ledger, mode>>

\* ------------------------------------------------------------ specifications
\* What is remembered of a call when it returns: of a successful addTokens with
\* one call at a time, the row it loaded, its amount and the ledger length.
Credited(p) ==
  IF mode = "seq" /\ proc[p].op = "add" /\ ~IsNull(hist[p].pre) /\ Val(proc[p].res).success
  THEN Some([pre |-> Val(hist[p].pre), tokens |-> proc[p].tokens, tx0 |-> hist[p].tx0])
  ELSE Null

\* The caller has received the result; the process is free for the next request.
Return(p) ==
  /\ proc[p].pc = "done"
  /\ IF IsNull(proc[p].req) THEN TRUE ELSE Val(proc[p].req).status # 0
  /\ proc' = [proc EXCEPT ![p] = IdleProc]
  /\ hist' = [hist EXCEPT ![p] = [NoHist EXCEPT !.prev = Credited(p),
                                                !.throws = hist[p].throws,
                                                !.dayCharged = hist[p].dayCharged,
                                                !.monthCharged = hist[p].monthCharged]]
  /\ UNCHANGED <<now, users, ledger, mode>>

\* The steps of a request in flight.
Step(p) ==
  \/ DeductFreeCheck(p)
  \/ DeductReget(p)
  \/ DeductDailyCheck(p)
  \/ DeductPremium(p)
  \/ DeductFree(p)
  \/ DeductPaid(p)
  \/ DeductTx(p)
  \/ AddUpdate(p)
  \/ AddTx(p)
  \/ PurchaseStatus(p)
  \/ RenewUpdate(p)
  \/ Return(p)

\* Overlapping requests: either process may start or advance at any time.
Next ==
  \/ Tick
  \/ \E u \in UserIds : ActivatePremium(u)
  \/ \E u \in UserIds : CancelSubscription(u)
  \/ \E p \in Procs, u \in CallIds, c \in OverlapCosts : StartDeduct(p, u, c)
  \/ \E p \in Procs, u \in CallIds, a \in Amounts : StartAdd(p, u, a)
  \/ \E p \in Procs, u \in UserIds : StartRenew(p, u)
  \/ \E p \in Procs : Step(p)

Spec == Init /\ [][Next]_vars

\* At most one call in flight, and webhooks arrive between calls.
NextSeq ==
  \/ Tick
  \/ \E u \in UserIds : ActivatePremium(u)
  \/ \E u \in UserIds : CancelSubscription(u)
  \/ \E u \in CallIds, c \in Costs : StartDeduct(1, u, c)
  \/ \E u \in CallIds, a \in Amounts : StartAdd(1, u, a)
  \/ \E u \in UserIds : StartRenew(1, u)
  \/ \E u \in UserIds : StartMe(1, u)
  \/ Step(1)
  \/ MeRespond(1)

SpecSeq == InitSeq /\ [][NextSeq]_vars

\* One call at a time, and any storage call of a call may reject.
NextFail ==
  \/ Tick
  \/ \E u \in UserIds : ActivatePremium(u)
  \/ \E u \in UserIds : CancelSubscription(u)
  \/ \E u \in CallIds, c \in Costs : StartDeduct(1, u, c)
  \/ \E u \in CallIds, a \in Amounts : StartAdd(1, u, a)
  \/ \E u \in UserIds : StartRenew(1, u)
  \/ \E u \in CallIds, c \in Costs : StartThrow(1, "deduct", u, c)
  \/ \E u \in CallIds, a \in Amounts : StartThrow(1, "add", u, a)
  \/ Step(1)
  \/ EngineThrow(1)
  \/ TxReadThrow(1)
  \/ PurchaseStatusThrow(1)

SpecFail == InitSeq /\ [][NextFail]_vars

\* An account that has bought tokens and stays paid_tokens: one call at a time,
\* deductions and purchases only, no subscription events.
InitPaid == InitIn("seq", PaidAccount, <<FirstPurchase>>)
NextPaid ==
  \/ Tick
  \/ \E u \in CallIds, c \in Costs : StartDeduct(1, u, c)
  \/ \E u \in CallIds, a \in Amounts : StartAdd(1, u, a)
  \/ DeductFreeCheck(1)
  \/ DeductReget(1)
  \/ DeductPaid(1)
  \/ DeductTx(1)
  \/ AddUpdate(1)
  \/ AddTx(1)
  \/ PurchaseStatus(1)
  \/ Return(1)

SpecPaid == InitPaid /\ [][NextPaid]_vars

\* Registration and chat requests, one at a time, with purchases and
\* subscription events between them; no account exists at the start.
InitChat ==
  /\ mode = "seq"
  /\ now = StartNow("seq")
  /\ users = [u \in UserIds |-> Null]
  /\ ledger = << >>
  /\ proc = [p \in Procs |-> IdleProc]
  /\ hist = [p \in Procs |-> NoHist]

NextChat ==
  \/ Tick
  \/ \E u \in UserIds : Register(u)
  \/ \E u \in UserIds : ActivatePremium(u)
  \/ \E u \in UserIds : CancelSubscription(u)
  \/ \E u \in CallIds, a \in Amounts : StartAdd(1, u, a)
  \/ \E u \in UserIds : StartRenew(1, u)
  \/ \E token \in {0} \cup CallIds, hasMessage \in BOOLEAN, input \in ChatInputs,
        provider \in Providers : StartChat(1, token, hasMessage, input, provider)
  \/ ChatBody(1)
  \/ ChatAfterDeduct(1)
  \/ ChatCall(1)
  \/ ChatRead(1)
  \/ Step(1)

SpecChat == InitChat /\ [][NextChat]_vars

\* ================================================================ claims
\* The lone call of SpecSeq: its record, what it saw, and the stored row.
TheCall == proc[1]
Saw == hist[1]
Pre == Val(hist[1].pre)
Stored == Val(users[1])
DeductDone ==
  /\ TheCall.op = "deduct" /\ TheCall.pc = "done" /\ ~IsNull(Saw.pre)
Outcome == Val(TheCall.res)

\* The tokens available in the bucket of the account's tier, evaluated after
\* any reset that was due when the call looked at the clock.
MonthlyWasDue == Val(Saw.nowF) >= Pre.freeTokensResetDate
DailyWasDue ==
  /\ Pre.subscriptionStatus = "premium_monthly"
  /\ Today(Val(Saw.nowD)) > (IF IsNull(Pre.lastDailyReset) THEN 0 ELSE Val(Pre.lastDailyReset))
UsedAfterReset == IF MonthlyWasDue THEN 0 ELSE Pre.freeTokensUsedThisMonth
AvailableAfterReset ==
  IF Pre.subscriptionStatus = "premium_monthly"
  THEN IF DailyWasDue THEN 30000
       ELSE IF IsNull(Pre.dailyTokenLimit) THEN 0 ELSE Val(Pre.dailyTokenLimit)
  ELSE IF Pre.subscriptionStatus = "free"
  THEN 10000 - UsedAfterReset
  ELSE Pre.tokensRemaining

OneUsageAppended ==
  /\ Len(ledger) = Saw.tx0 + 1
  /\ ledger[Len(ledger)].type = "usage"
  /\ ledger[Len(ledger)].amount = 0 - TheCall.tokens
  /\ ledger[Len(ledger)].userId = TheCall.userId
  /\ SubSeq(ledger, 1, Saw.tx0) = SubSeq(ledger, 1, Len(ledger) - 1)

BucketChargedBy(c) ==
  IF Pre.subscriptionStatus = "premium_monthly"
  THEN Stored.dailyTokenLimit = Some(AvailableAfterReset - c)
  ELSE IF Pre.subscriptionStatus = "free"
  THEN Stored.freeTokensUsedThisMonth = UsedAfterReset + c
  ELSE Stored.tokensRemaining = Pre.tokensRemaining - c

\* C1: a deduction of a cost c that does not exceed the tokens available in the
\* tier's bucket (after any due reset) succeeds, changes that bucket by exactly
\* c and appends exactly one 'usage' transaction of amount -c.
C1_SufficientDeductionCharges ==
  (DeductDone /\ TheCall.tokens <= AvailableAfterReset) =>
     /\ Outcome.success
     /\ BucketChargedBy(TheCall.tokens)
     /\ OneUsageAppended

\* A premium call that found the daily reset due and was charged against the
\* fresh allowance.
C1_Witness ==
  /\ DeductDone /\ TheCall.tokens <= AvailableAfterReset
  /\ Pre.subscriptionStatus = "premium_monthly"
  /\ DailyWasDue
  /\ Pre.dailyTokenLimit # Some(30000)
  /\ Outcome.success

\* The six balance fields of a stored row.
Balances(r) ==
  <<r.tokensRemaining, r.totalTokensUsed, r.freeTokensUsedThisMonth,
    r.freeTokensResetDate, r.dailyTokenLimit, r.lastDailyReset>>

\* C2: as stated, a deduction of a cost above the available tokens fails, leaves
\* all six balance fields as they were before the call and appends nothing,
\* also when a reset is due.
C2_FailedDeductionChangesNothing ==
  (DeductDone /\ TheCall.tokens > AvailableAfterReset) =>
     /\ ~Outcome.success
     /\ Balances(Stored) = Balances(Pre)
     /\ ledger = SubSeq(ledger, 1, Saw.tx0)

\* The row before the call with the due rollovers applied, and nothing else.
PreRolledOver ==
  [Pre EXCEPT
     !.freeTokensUsedThisMonth = IF MonthlyWasDue THEN 0 ELSE @,
     !.freeTokensResetDate = IF MonthlyWasDue THEN Stored.freeTokensResetDate ELSE @,
     !.dailyTokenLimit = IF DailyWasDue THEN Some(30000) ELSE @,
     !.lastDailyReset = IF DailyWasDue THEN Some(Today(Val(Saw.nowD))) ELSE @]

\* C2: as amended, a deduction of a cost above the available tokens fails, charges
\* no bucket and appends nothing; the stored row is the row before the call
\* except for the fields a due rollover rewrites.
C2_FailedDeductionOnlyRollsOver ==
  (DeductDone /\ TheCall.tokens > AvailableAfterReset) =>
     /\ ~Outcome.success
     /\ Stored = PreRolledOver
     /\ MonthlyWasDue => Stored.freeTokensResetDate > Val(Saw.nowF)
     /\ ledger = SubSeq(ledger, 1, Saw.tx0)
     /\ Len(ledger) = Saw.tx0

\* A refused call that nevertheless persisted a rollover.
C2_Witness ==
  /\ DeductDone /\ TheCall.tokens > AvailableAfterReset
  /\ ~Outcome.success
  /\ MonthlyWasDue \/ DailyWasDue
  /\ Balances(Stored) # Balances(Pre)

\* Two deductions that both succeeded against the same bucket having read the
\* same balance of it.
Succeeded(p) ==
  /\ proc[p].op = "deduct" /\ proc[p].pc = "done" /\ proc[p].userId = 1
  /\ Val(proc[p].res).success
ReadBalance(p) ==
  IF Val(proc[p].res).tokenSource = "free_monthly"
  THEN Val(Val(proc[p].res).freeTokensLeft) + proc[p].tokens
  ELSE Val(Val(proc[p].res).remainingTokens) + proc[p].tokens
SameRead(p, q) ==
  /\ p # q /\ Succeeded(p) /\ Succeeded(q)
  /\ Val(proc[p].res).tokenSource = Val(proc[q].res).tokenSource
  /\ Val(proc[p].res).tokenSource \in {"free_monthly", "purchased"}
  /\ ReadBalance(p) = ReadBalance(q)
StoredBalance(source) ==
  IF source = "free_monthly"
  THEN 10000 - Stored.freeTokensUsedThisMonth
  ELSE Stored.tokensRemaining
UsageCount(c) ==
  Len(SelectSeq(ledger, LAMBDA t : t.type = "usage" /\ t.amount = 0 - c))

\* C3: when two deductions from the monthly or the purchased bucket have both
\* succeeded on the same balance read, both 'usage' transactions are in the
\* ledger while the bucket is reduced by one of the two costs, not by their sum.
C3_LostUpdate ==
  \A p, q \in Procs :
     SameRead(p, q) =>
        /\ StoredBalance(Val(proc[p].res).tokenSource)
              \in {ReadBalance(p) - proc[p].tokens, ReadBalance(p) - proc[q].tokens}
        /\ UsageCount(proc[p].tokens) >= 1 /\ UsageCount(proc[q].tokens) >= 1
        /\ proc[p].tokens = proc[q].tokens => UsageCount(proc[p].tokens) >= 2

\* Two overlapping free-tier deductions of 4000 and 10000 from an untouched
\* month: both returned success, 14000 tokens are in the ledger, 4000 are charged.
C3_Witness ==
  /\ SameRead(1, 2)
  /\ Val(proc[1].res).tokenSource = "free_monthly"
  /\ ReadBalance(1) = 10000
  /\ proc[1].tokens = 4000 /\ proc[2].tokens = 10000
  /\ Stored.freeTokensResetDate = FreshAccount.freeTokensResetDate
  /\ Len(ledger) = 2
  /\ Stored.freeTokensUsedThisMonth = 4000

\* C4: tokensRemaining is never negative.
C4_TokensRemainingNonNegative ==
  \A u \in UserIds : ~IsNull(users[u]) => Val(users[u]).tokensRemaining >= 0

\* A purchased balance spent down to exactly zero while another request is in flight.
C4_Witness ==
  /\ Stored.tokensRemaining = 0
  /\ Stored.totalTokensUsed > 0
  /\ \E p \in Procs : InFlight(p)

\* C5: freeTokensUsedThisMonth lies in [0, 10000].
C5_FreeUsedWithinCap ==
  \A u \in UserIds : ~IsNull(users[u]) =>
     /\ Val(users[u]).freeTokensUsedThisMonth >= 0
     /\ Val(users[u]).freeTokensUsedThisMonth <= 10000

\* The month's quota used up while a second deduction that read the unused
\* quota is still to write.
C5_Witness ==
  /\ Stored.freeTokensUsedThisMonth = 10000
  /\ \E p \in Procs :
        /\ proc[p].pc = "d_branch"
        /\ Val(proc[p].user).subscriptionStatus = "free"
        /\ Val(proc[p].user).freeTokensUsedThisMonth = 0

\* C6: dailyTokenLimit, when set, lies in [0, 30000].
C6_DailyLimitWithinCap ==
  \A u \in UserIds : (~IsNull(users[u]) /\ ~IsNull(Val(users[u]).dailyTokenLimit)) =>
     /\ Val(Val(users[u]).dailyTokenLimit) >= 0
     /\ Val(Val(users[u]).dailyTokenLimit) <= 30000

\* A day's allowance partly spent, on a later day than the subscription began,
\* with a premium deduction that passed the daily reset about to write.
C6_Witness ==
  /\ ~IsNull(Stored.dailyTokenLimit)
  /\ Val(Stored.dailyTokenLimit) < 30000
  /\ \E p \in Procs :
        /\ proc[p].pc = "d_prem"
        /\ Val(proc[p].dailyCheck).tokensAvailable = 30000

\* C7: one call charges at most one bucket.
C7_OneBucketPerCall ==
  (DeductDone /\ Outcome.success) =>
     /\ Outcome.tokenSource = "premium_daily" =>
           /\ Stored.tokensRemaining = Pre.tokensRemaining
           /\ Stored.totalTokensUsed = Pre.totalTokensUsed
           /\ Stored.freeTokensUsedThisMonth <= Pre.freeTokensUsedThisMonth
     /\ Outcome.tokenSource = "free_monthly" =>
           /\ Stored.tokensRemaining = Pre.tokensRemaining
           /\ Stored.totalTokensUsed = Pre.totalTokensUsed
           /\ Stored.dailyTokenLimit = Pre.dailyTokenLimit
     /\ Outcome.tokenSource = "purchased" =>
           /\ Stored.dailyTokenLimit = Pre.dailyTokenLimit
           /\ Stored.freeTokensUsedThisMonth <= Pre.freeTokensUsedThisMonth

\* A premium call on an account that also holds purchased tokens and a partly
\* used free quota.
C7_Witness ==
  /\ DeductDone /\ Outcome.success
  /\ Outcome.tokenSource = "premium_daily"
  /\ Pre.tokensRemaining > 0
  /\ Pre.freeTokensUsedThisMonth > 0

\* A finished GET /api/me.
MeDone == TheCall.op = "me" /\ TheCall.pc = "done"

\* C8: as stated, a request made while a reset is due sees post-rollover
\* balances: deductTokens decides against the rolled-over bucket, and the
\* availableTokens of GET /api/me is the post-reset amount.
C8_RequestsSeePostRollover ==
  /\ (DeductDone /\ Pre.subscriptionStatus \in {"free", "premium_monthly"}) =>
        (Outcome.success <=> TheCall.tokens <= AvailableAfterReset)
  /\ (MeDone /\ Pre.subscriptionStatus = "free" /\ MonthlyWasDue) =>
        Outcome.availableTokens = 10000
  /\ (MeDone /\ Pre.subscriptionStatus = "premium_monthly"
        /\ Today(Val(Saw.nowF)) > (IF IsNull(Pre.lastDailyReset) THEN 0
                                    ELSE Val(Pre.lastDailyReset))) =>
        Outcome.availableTokens = 30000

\* A second run of the reset check on row r at time t: checkAndResetFreeTier,
\* then checkDailyLimit on the row it returns.
SecondResetCheck(r, t) ==
  LET r1 == IF FreeResetDue(r, t) THEN FreeResetRow(r, t) ELSE r
  IN  IF r1.subscriptionStatus = "premium_monthly" /\ DailyResetDue(r1, t)
      THEN DailyResetRow(r1, t)
      ELSE r1
ResetCheckRanNow ==
  /\ TheCall.op = "deduct" /\ ~IsNull(Saw.pre)
  /\ (TheCall.pc \in {"d_prem", "d_tx", "done"}
        \/ (TheCall.pc = "d_branch" /\ Pre.subscriptionStatus # "premium_monthly"))
  /\ Saw.nowF = Some(now)
  /\ Pre.subscriptionStatus = "premium_monthly" => Saw.nowD = Some(now)

\* C9: once a call has run the reset check at the current clock reading, a
\* second run at the same reading changes no stored field, also after the
\* call's deduction has been persisted.
C9_ResetIdempotent ==
  ResetCheckRanNow => SecondResetCheck(Stored, now) = Stored

\* Both rollovers performed and the deduction persisted, the clock unchanged.
C9_Witness ==
  /\ ResetCheckRanNow /\ TheCall.pc = "done" /\ Outcome.success
  /\ MonthlyWasDue /\ DailyWasDue
  /\ Pre.freeTokensUsedThisMonth > 0

\* The month count of an instant: year * 12 + month index.
MonthNumber(t) == t \div TicksPerMonth
MonthlyCheckJustRan ==
  /\ TheCall.op = "deduct" /\ ~IsNull(Saw.pre)
  /\ TheCall.pc \in {"d_reget", "d_branch"}

\* C10: when now >= freeTokensResetDate the reset check stores
\* freeTokensUsedThisMonth = 0 and the first day of the month after now, a date
\* later than now (January of the next year when now is in December);
\* otherwise it leaves both fields unchanged.
C10_MonthlyRollover ==
  MonthlyCheckJustRan =>
     IF MonthlyWasDue
     THEN /\ Stored.freeTokensUsedThisMonth = 0
          /\ Stored.freeTokensResetDate > Val(Saw.nowF)
          /\ Stored.freeTokensResetDate % TicksPerMonth = 0
          /\ MonthNumber(Stored.freeTokensResetDate) = MonthNumber(Val(Saw.nowF)) + 1
          /\ getMonth(Val(Saw.nowF)) = 11 =>
                /\ getMonth(Stored.freeTokensResetDate) = 0
                /\ getFullYear(Stored.freeTokensResetDate) = getFullYear(Val(Saw.nowF)) + 1
     ELSE /\ Stored.freeTokensUsedThisMonth = Pre.freeTokensUsedThisMonth
          /\ Stored.freeTokensResetDate = Pre.freeTokensResetDate

\* A used quota rolled over in December.
C10_Witness ==
  /\ MonthlyCheckJustRan /\ MonthlyWasDue
  /\ getMonth(Val(Saw.nowF)) = 11
  /\ Pre.freeTokensUsedThisMonth > 0
  /\ Stored.freeTokensUsedThisMonth = 0

\* The day count of an instant, and the day of the last daily reset of the row
\* the call loaded (the epoch if unset).
DayNumber(t) == t \div TicksPerDay
LastResetDay == IF IsNull(Pre.lastDailyReset) THEN DayNumber(0) ELSE DayNumber(Val(Pre.lastDailyReset))
DailyCheckJustRan ==
  /\ TheCall.op = "deduct" /\ ~IsNull(Saw.pre)
  /\ TheCall.pc = "d_prem"

\* C11: for a premium_monthly account, when the calendar date of now is after
\* the calendar date of lastDailyReset the reset check stores dailyTokenLimit =
\* 30000 and lastDailyReset = today's date (midnight); when lastDailyReset is
\* already today it leaves both fields unchanged.
C11_DailyRollover ==
  DailyCheckJustRan =>
     IF DayNumber(Val(Saw.nowD)) > LastResetDay
     THEN /\ Stored.dailyTokenLimit = Some(30000)
          /\ ~IsNull(Stored.lastDailyReset)
          /\ DayNumber(Val(Stored.lastDailyReset)) = DayNumber(Val(Saw.nowD))
          /\ Val(Stored.lastDailyReset) % TicksPerDay = 0
     ELSE /\ DayNumber(Val(Saw.nowD)) = LastResetDay
          /\ Stored.dailyTokenLimit = Pre.dailyTokenLimit
          /\ Stored.lastDailyReset = Pre.lastDailyReset

\* A partly spent allowance restored on a later day than the last reset.
C11_Witness ==
  /\ DailyCheckJustRan
  /\ DayNumber(Val(Saw.nowD)) > LastResetDay
  /\ ~IsNull(Pre.dailyTokenLimit) /\ Val(Pre.dailyTokenLimit) < 30000
  /\ Stored.dailyTokenLimit = Some(30000)

\* Nothing was charged to the daily allowance and nothing was appended.
NoPremiumCharge ==
  /\ Stored.dailyTokenLimit = (IF DailyWasDue THEN Some(30000) ELSE Pre.dailyTokenLimit)
  /\ Len(ledger) = Saw.tx0

\* C12: on a premium_monthly account, with the allowance as it stands after the
\* reset check: an allowance of 0 fails with the daily-limit-reached error
\* (it resets tomorrow); a cost above a positive allowance fails with the
\* daily-limit-exceeded error naming exactly the allowance; both deduct
\* nothing; a cost within the allowance succeeds with remainingTokens =
\* allowance - cost and tokenSource 'premium_daily'.
C12_PremiumBranch ==
  (DeductDone /\ Pre.subscriptionStatus = "premium_monthly") =>
     LET allowance == AvailableAfterReset
         cost == TheCall.tokens IN
     /\ allowance = 0 =>
           /\ ~Outcome.success
           /\ Outcome.error = Message("Daily token limit reached. Resets tomorrow!")
           /\ NoPremiumCharge
     /\ (allowance > 0 /\ cost > allowance) =>
           /\ ~Outcome.success
           /\ Outcome.error = MessageWith("Daily limit exceeded. ", allowance,
                                          " tokens available today.")
           /\ NoPremiumCharge
     /\ (0 < cost /\ cost <= allowance) =>
           /\ Outcome.success
           /\ Outcome.remainingTokens = Some(allowance - cost)
           /\ Outcome.tokenSource = "premium_daily"
           /\ Stored.dailyTokenLimit = Some(allowance - cost)

\* A cost above a partly spent allowance, refused with the allowance named.
C12_Witness ==
  /\ DeductDone /\ Pre.subscriptionStatus = "premium_monthly"
  /\ ~DailyWasDue
  /\ AvailableAfterReset = 26000 /\ TheCall.tokens = 30000
  /\ Outcome.error = MessageWith("Daily limit exceeded. ", 26000, " tokens available today.")

\* C13: on a free account, with freeLeft = 10000 - freeTokensUsedThisMonth as
\* the free branch finds it (after the reset check): the call succeeds iff
\* freeLeft >= cost, reporting freeTokensLeft = freeLeft - cost and tokenSource
\* 'free_monthly'; with 0 < freeLeft < cost it fails reporting exactly
\* freeLeft; with freeLeft = 0 it fails with the quota-exhausted error; a
\* failing call leaves the purchased balance and every other balance as the
\* branch found them, also when tokensRemaining >= cost.
C13_FreeBranch ==
  (DeductDone /\ Pre.subscriptionStatus = "free") =>
     LET freeLeft == 10000 - UsedAfterReset
         cost == TheCall.tokens IN
     /\ Outcome.success <=> freeLeft >= cost
     /\ Outcome.success =>
           /\ Outcome.freeTokensLeft = Some(freeLeft - cost)
           /\ Outcome.tokenSource = "free_monthly"
     /\ (0 < freeLeft /\ freeLeft < cost) =>
           /\ Outcome.freeTokensLeft = Some(freeLeft)
           /\ Outcome.error = MessageWith("Only ", freeLeft,
                                          " free tokens left this month. Upgrade for more!")
     /\ freeLeft = 0 =>
           /\ Outcome.freeTokensLeft = Some(0)
           /\ Outcome.error = Message("Free monthly limit reached. Upgrade for more tokens!")
     /\ ~Outcome.success =>
           /\ Stored = PreRolledOver
           /\ Len(ledger) = Saw.tx0

\* A free account holding purchased tokens that would cover the cost: the call
\* is refused with the 6000 free tokens left, the purchased balance untouched.
C13_Witness ==
  /\ DeductDone /\ Pre.subscriptionStatus = "free"
  /\ ~Outcome.success
  /\ Outcome.freeTokensLeft = Some(6000)
  /\ Pre.tokensRemaining >= TheCall.tokens
  /\ Stored.tokensRemaining = Pre.tokensRemaining

\* C14: on a paid_tokens account the call fails with the insufficient-purchased-
\* tokens error iff tokensRemaining < cost; otherwise (a cost equal to the
\* balance included) it stores tokensRemaining - cost and totalTokensUsed +
\* cost, appends one 'usage' transaction and returns the new tokensRemaining
\* with tokenSource 'purchased'.
C14_PaidBranch ==
  (DeductDone /\ Pre.subscriptionStatus = "paid_tokens") =>
     LET cost == TheCall.tokens IN
     /\ ~Outcome.success <=> Pre.tokensRemaining < cost
     /\ ~Outcome.success =>
           /\ Outcome.error = Message("Insufficient purchased tokens")
           /\ Stored.tokensRemaining = Pre.tokensRemaining
           /\ Stored.totalTokensUsed = Pre.totalTokensUsed
           /\ Len(ledger) = Saw.tx0
     /\ Outcome.success =>
           /\ Stored.tokensRemaining = Pre.tokensRemaining - cost
           /\ Stored.totalTokensUsed = Pre.totalTokensUsed + cost
           /\ OneUsageAppended
           /\ Outcome.remainingTokens = Some(Stored.tokensRemaining)
           /\ Outcome.tokenSource = "purchased"

\* The whole purchased balance spent in one call.
C14_Witness ==
  /\ DeductDone /\ Pre.subscriptionStatus = "paid_tokens"
  /\ Pre.tokensRemaining = TheCall.tokens
  /\ Outcome.success
  /\ Stored.tokensRemaining = 0
  /\ Outcome.remainingTokens = Some(0)

\* A finished addTokens on an existing account.
AddDone ==
  /\ TheCall.op = "add" /\ TheCall.pc \in {"w_status", "done"} /\ ~IsNull(Saw.pre)

\* C15: addTokens on an existing account with a positive amount succeeds,
\* raises tokensRemaining by exactly the amount, leaves totalTokensUsed and the
\* other balance fields unchanged, appends exactly one 'purchase' transaction
\* of +amount carrying the external reference, and returns newBalance equal to
\* the stored tokensRemaining.
C15_Credit ==
  AddDone =>
     /\ Outcome.success
     /\ Stored.tokensRemaining = Pre.tokensRemaining + TheCall.tokens
     /\ Balances(Stored) = Balances([Pre EXCEPT !.tokensRemaining = @ + TheCall.tokens])
     /\ Len(ledger) = Saw.tx0 + 1
     /\ SubSeq(ledger, 1, Saw.tx0) = SubSeq(ledger, 1, Len(ledger) - 1)
     /\ ledger[Len(ledger)].type = "purchase"
     /\ ledger[Len(ledger)].amount = TheCall.tokens
     /\ ledger[Len(ledger)].userId = TheCall.userId
     /\ ledger[Len(ledger)].stripePaymentId = PaymentIntent
     /\ Outcome.newBalance = Some(Stored.tokensRemaining)

\* A credit on an account that already holds purchased tokens and has used some.
C15_Witness ==
  /\ AddDone
  /\ Pre.tokensRemaining > 0 /\ Pre.totalTokensUsed > 0
  /\ Stored.tokensRemaining = Pre.tokensRemaining + TheCall.tokens
  /\ Stored.totalTokensUsed = Pre.totalTokensUsed

\* A finished deduction of n from a paid_tokens account that came right after
\* a credit of n to it (no call in between), and that credit.
TheCredit == Val(Saw.prev)
DeductAfterCredit ==
  /\ DeductDone /\ ~IsNull(Saw.prev)
  /\ TheCredit.pre.subscriptionStatus = "paid_tokens"
  /\ Pre.subscriptionStatus = "paid_tokens"
  /\ TheCall.tokens = TheCredit.tokens

\* C16: on a paid_tokens account, addTokens(n) immediately followed by
\* deductTokens(n) returns tokensRemaining to its value before the credit and
\* appends exactly two ledger entries, +n and -n, which sum to zero.
C16_RoundTrip ==
  DeductAfterCredit =>
     /\ Outcome.success
     /\ Stored.tokensRemaining = TheCredit.pre.tokensRemaining
     /\ Len(ledger) = TheCredit.tx0 + 2
     /\ ledger[TheCredit.tx0 + 1].type = "purchase"
     /\ ledger[TheCredit.tx0 + 2].type = "usage"
     /\ ledger[TheCredit.tx0 + 1].amount = TheCredit.tokens
     /\ ledger[TheCredit.tx0 + 1].amount + ledger[TheCredit.tx0 + 2].amount = 0

\* A credit of 10000 to a balance of 10000, taken out again by the next call.
C16_Witness ==
  /\ DeductAfterCredit
  /\ TheCredit.pre.tokensRemaining = 10000
  /\ TheCredit.tokens = 10000
  /\ Stored.tokensRemaining = 10000
  /\ Len(ledger) = 3

\* C17: as stated, when a storage call of deductTokens fails the call returns
\* success=false and the stored account and the ledger are as they were before
\* the call; a bucket is never left charged without its 'usage' transaction.
C17_FailureLeavesNoPartialChange ==
  (DeductDone /\ Saw.threw) =>
     /\ ~Outcome.success
     /\ Stored = Pre
     /\ Len(ledger) = Saw.tx0

\* deductTokens or addTokens has returned (handleSuccessfulPayment may still
\* have its status UPDATE to make).
EngineReturned ==
  /\ TheCall.op \in {"deduct", "add"}
  /\ TheCall.pc \in {"w_status", "done"}

\* C18: deductTokens and addTokens end by returning a result with a boolean
\* success field: a call in flight always has a next step, and when a storage
\* call threw the result is success=false with the error string of the catch
\* block.
C18_NoExceptionCrossesBoundary ==
  /\ (TheCall.op \in {"deduct", "add"} /\ InFlight(1)) => ENABLED Step(1)
  /\ EngineReturned =>
        /\ ~IsNull(TheCall.res)
        /\ Outcome.success \in BOOLEAN
        /\ ~Outcome.success => ~IsNull(Outcome.error)
        /\ Saw.threw =>
              /\ ~Outcome.success
              /\ Outcome.error = IF TheCall.op = "deduct"
                                  THEN Message("Failed to deduct tokens")
                                  ELSE Message("Failed to add tokens")

\* The usage INSERT threw after the bucket had been charged: the call returned
\* the failure of the catch block.
C18_Witness ==
  /\ DeductDone /\ Saw.threw
  /\ Stored.totalTokensUsed > Pre.totalTokensUsed
  /\ ~Outcome.success
  /\ Outcome.error = Message("Failed to deduct tokens")

\* C19: as stated, the stored totalTokensUsed of an account never decreases,
\* whatever the interleaving of deductTokens and addTokens calls.
C19_TotalUsedMonotonic ==
  [][\A u \in UserIds :
        (~IsNull(users[u]) /\ ~IsNull(users'[u])) =>
           Val(users'[u]).totalTokensUsed >= Val(users[u]).totalTokensUsed]_vars

\* The step in which request p completes a successful deduction or credit.
CompletesCharge(p) ==
  \/ /\ proc[p].op = "deduct" /\ proc[p].pc # "done" /\ proc'[p].pc = "done"
     /\ Val(proc'[p].res).success
  \/ /\ proc[p].op = "add" /\ proc[p].pc = "a_tx" /\ proc'[p].pc = "w_status"

\* C20: the ledger is append-only: the step that completes a successful
\* deduction or credit adds exactly one transaction after the existing ones,
\* and every other step (reset, refusal, webhook, clock) leaves the ledger as
\* it is.
C20_LedgerAppendOnly ==
  [][IF \E p \in Procs : CompletesCharge(p)
     THEN /\ Len(ledger') = Len(ledger) + 1
          /\ SubSeq(ledger', 1, Len(ledger)) = ledger
     ELSE ledger' = ledger]_vars

\* Two entries appended to the first purchase by overlapping requests, across a
\* monthly rollover and a subscription webhook.
C20_Witness ==
  /\ Len(ledger) = 3
  /\ ledger[1] = FirstPurchase
  /\ ledger[2].type = "usage"
  /\ Stored.freeTokensResetDate # FreshAccount.freeTokensResetDate
  /\ ~IsNull(Stored.lastDailyReset)

\* The step in which checkDailyLimit computes { canUse, tokensAvailable } for
\* the lone call, and the step in which GET /api/me computes availableTokens.
DailyCheckStep == proc[1].pc = "d_branch" /\ proc'[1].pc = "d_prem"
MeStep == proc[1].pc = "m_resp" /\ proc'[1].pc = "done"

\* C21: as stated, computing the entitlement of an account (checkDailyLimit,
\* and the availableTokens computation of GET /api/me) leaves every stored field
\* of the account unchanged, for every tier and every clock reading.
C21_EntitlementDoesNotMutate ==
  [][(DailyCheckStep \/ MeStep) => users' = users]_vars

\* C21: computing the entitlement leaves every stored field unchanged, except
\* that checkDailyLimit on a premium_monthly account whose lastDailyReset is on
\* an earlier calendar day stores dailyTokenLimit = 30000 and lastDailyReset =
\* today's midnight and nothing else; GET /api/me stores nothing.
C21_EntitlementOnlyRollsOverDaily ==
  [][/\ MeStep => users' = users
     /\ DailyCheckStep =>
          users' = IF DayNumber(now) > (IF IsNull(Stored.lastDailyReset) THEN DayNumber(0)
                                        ELSE DayNumber(Val(Stored.lastDailyReset)))
                   THEN [users EXCEPT ![1] = Some([Stored EXCEPT
                            !.dailyTokenLimit = Some(30000),
                            !.lastDailyReset = Some(DayNumber(now) * TicksPerDay)])]
                   ELSE users]_vars

\* checkDailyLimit has just answered with the restored allowance of an account
\* that holds purchased tokens, and only the two daily fields differ.
C21_Witness ==
  /\ DailyCheckJustRan
  /\ DayNumber(Val(Saw.nowD)) > LastResetDay
  /\ Val(TheCall.dailyCheck).tokensAvailable = 30000
  /\ Stored.lastDailyReset # Pre.lastDailyReset
  /\ Stored.tokensRemaining > 0
  /\ Stored.tokensRemaining = Pre.tokensRemaining

\* The tokens the claim names as available for row r.
Entitlement(r) ==
  IF r.subscriptionStatus = "paid_tokens" THEN r.tokensRemaining
  ELSE IF r.subscriptionStatus = "free"
  THEN (IF 10000 - r.freeTokensUsedThisMonth > 0 THEN 10000 - r.freeTokensUsedThisMonth ELSE 0)
  ELSE IF IsNull(r.dailyTokenLimit) THEN 0 ELSE Val(r.dailyTokenLimit)

NoAccountCallStep ==
  /\ Idle(1)
  /\ proc'[1].op \in {"deduct", "add"}
  /\ IsNull(getUserById(proc'[1].userId))
NoAccountCallDone ==
  /\ TheCall.op \in {"deduct", "add"} /\ TheCall.pc = "done"
  /\ IsNull(getUserById(TheCall.userId))

\* C23: deductTokens and addTokens called with an identifier for which no
\* account exists return at once with success = false and the error 'User not
\* found', append no transaction and change no stored account.
C23_AccountNotFound ==
  [][/\ NoAccountCallStep =>
          /\ proc'[1].pc = "done"
          /\ ~Val(proc'[1].res).success
          /\ Val(proc'[1].res).error = <<"User not found">>
          /\ ledger' = ledger /\ users' = users
     /\ NoAccountCallDone => (ledger' = ledger /\ users' = users)]_vars

\* addTokens has returned not-found while an existing account holds purchased
\* tokens and the ledger has rows.
C23_Witness ==
  /\ NoAccountCallDone /\ TheCall.op = "add"
  /\ ~Outcome.success /\ Outcome.error = <<"User not found">>
  /\ Len(ledger) > 0 /\ Stored.tokensRemaining > 0

\* C27: with at most one call in flight, the tokens successfully deducted from
\* a premium_monthly account's daily bucket within one calendar day never total
\* more than 30000, whatever deductions, daily reset checks and Stripe events
\* (activation, renewal) occur during that day.
C27_DailyChargesWithinCap ==
  Saw.dayCharged <= 30000

\* C28: with at most one call in flight, the tokens successfully deducted from
\* a free account's monthly bucket since the last monthly reset never total
\* more than 10000, and their sum equals freeTokensUsedThisMonth at every point.
C28_MonthlyChargesWithinCap ==
  /\ Saw.monthCharged <= 10000
  /\ Saw.monthCharged = Stored.freeTokensUsedThisMonth

\* The monthly quota has been used up by two deductions made after a monthly
\* reset, and a further deduction has been refused.
C28_Witness ==
  /\ DeductDone /\ ~Outcome.success
  /\ Pre.subscriptionStatus = "free"
  /\ Saw.monthCharged = 10000
  /\ Stored.freeTokensResetDate > CreatedAt + TicksPerMonth
  /\ UsageCount(4000) >= 1

\* The sum of the amounts of a sequence of transactions, and the rows appended
\* for account 1 since the initial state of SpecPaid.
RECURSIVE SumAmounts(_)
SumAmounts(txs) == IF txs = << >> THEN 0 ELSE Head(txs).amount + SumAmounts(Tail(txs))
AppendedTxs == SelectSeq(SubSeq(ledger, 2, Len(ledger)), LAMBDA t : t.userId = 1)
AppendedUsage == SelectSeq(AppendedTxs, LAMBDA t : t.type = "usage")

\* C29: with one call at a time on an account that is paid_tokens throughout,
\* whenever no call is in flight tokensRemaining equals its initial value plus
\* the sum of the amounts of all transactions appended for the account, and
\* totalTokensUsed equals its initial value minus the sum of the amounts of the
\* appended 'usage' transactions.
C29_LedgerConservation ==
  ~InFlight(1) =>
     /\ Stored.subscriptionStatus = "paid_tokens"
     /\ Stored.tokensRemaining = PaidAccount.tokensRemaining + SumAmounts(AppendedTxs)
     /\ Stored.totalTokensUsed = PaidAccount.totalTokensUsed - SumAmounts(AppendedUsage)

\* Two deductions and a purchase have been recorded, and a call has returned.
C29_Witness ==
  /\ TheCall.pc = "done"
  /\ Len(AppendedUsage) = 2 /\ Len(AppendedTxs) = 3
  /\ Stored.totalTokensUsed = 8000
  /\ Stored.tokensRemaining = 12000

\* The cost computation has been applied to the request's model and length.
CostDone == TheCall.op = "cost" /\ TheCall.pc = "done"
\* The table cost of a model, 2 for a model that is not in the table.
TableCost(model) == IF model \in DOMAIN MODEL_COSTS THEN MODEL_COSTS[model] ELSE 2

\* C24: for every model and every input length L >= 1 (an empty input counts as
\* L = 100) the computed cost is max(base, ceil(base * L / 100)) with base the
\* model's table cost, 2 for an unknown model; it is an integer >= base >= 1
\* and non-decreasing in L, hence a positive integer.
C24_CostPolicy ==
  CostDone =>
    LET model == ModelOrDefault(Val(TheCall.req).model)
        L == InputLength(Val(TheCall.req).length)
        base == TableCost(model)
        cost == Outcome.tokenCost
    IN  /\ ~IsNull(cost)
        /\ Val(cost) \in Nat
        /\ base >= 1 /\ Val(cost) >= base
        /\ \/ Val(cost) = base /\ 100 * base >= base * L
           \/ Val(cost) > base /\ 100 * Val(cost) >= base * L
                               /\ 100 * (Val(cost) - 1) < base * L
        /\ \A L2 \in CostLengths :
              InputLength(L2) >= L =>
                 LET cost2 == calculateTokenCost(model, InputLength(L2))
                 IN  ~IsNull(cost2) /\ Val(cost2) >= Val(cost)

\* The chat request in handling, if any, and whether it came with a user.
InChat == ~IsNull(TheCall.req)
ChatReq == Val(TheCall.req)
Authenticated == InChat /\ ChatReq.user # 0
\* deductTokens has returned to the handler, which has not yet looked at the result.
DeductionReturned == InChat /\ TheCall.op = "deduct" /\ TheCall.pc = "done"
\* The handler has gone on after a deduction that succeeded.
PastDeduction ==
  /\ Authenticated /\ TheCall.op = "chat"
  /\ TheCall.pc \in {"c_call", "c_read", "done"}
  /\ ~IsNull(TheCall.res) /\ Outcome.success

\* C25: in POST /api/chat for an authenticated user a failed deduction, whatever
\* its reason, is answered at once with status 402 carrying the engine's error
\* and the request is never forwarded to a provider; a request of an
\* authenticated user is forwarded only after deductTokens returned success for it.
C25_FailedDeductionIsPaymentRequired ==
  /\ [](/\ (InChat /\ ChatReq.status = 402) =>
             (~ChatReq.forwarded /\ TheCall.pc = "done" /\ ~Outcome.success
                /\ ChatReq.error = Outcome.error)
        /\ (Authenticated /\ ChatReq.forwarded) =>
             (~IsNull(TheCall.res) /\ Outcome.success))
  /\ [][(DeductionReturned /\ ~Outcome.success /\ proc' # proc) =>
          /\ Val(proc'[1].req).status = 402
          /\ Val(proc'[1].req).error = Outcome.error
          /\ ~Val(proc'[1].req).forwarded
          /\ proc'[1].pc = "done"]_vars

\* A premium user whose daily allowance is spent has been answered 402 with
\* the engine's error.
C25_Witness ==
  /\ Authenticated /\ ChatReq.status = 402
  /\ ~ChatReq.forwarded
  /\ ChatReq.error = <<"Daily token limit reached. Resets tomorrow!">>
  /\ Stored.dailyTokenLimit = Some(0)

\* The row as createUser leaves it, whatever its reset date.
IsNewRow(r) ==
  /\ r.subscriptionStatus = "free"
  /\ r.tokensRemaining = 0 /\ r.totalTokensUsed = 0 /\ r.freeTokensUsedThisMonth = 0
  /\ IsNull(r.dailyTokenLimit) /\ IsNull(r.lastDailyReset)

\* C26: registration stores an account with tier 'free', tokensRemaining = 0,
\* totalTokensUsed = 0, freeTokensUsedThisMonth = 0, unset dailyTokenLimit and
\* lastDailyReset and freeTokensResetDate = the date one month after creation;
\* a first deduction from such an account is charged to the monthly free bucket
\* against the full allowance of 10000.
C26_NewAccount ==
  /\ [][(IsNull(users[1]) /\ ~IsNull(users'[1])) =>
          /\ IsNewRow(Val(users'[1]))
          /\ Val(users'[1]).freeTokensResetDate = DayNumber(now) * TicksPerDay + TicksPerMonth
          /\ Val(users'[1]).freeTokensResetDate > now]_vars
  /\ []((DeductDone /\ IsNewRow(Pre)) =>
          /\ Outcome.success <=> TheCall.tokens <= 10000
          /\ Outcome.success =>
               /\ Outcome.tokenSource = "free_monthly"
               /\ Outcome.freeTokensLeft = Some(10000 - TheCall.tokens)
               /\ Stored.freeTokensUsedThisMonth = TheCall.tokens
               /\ Stored.tokensRemaining = 0 /\ IsNull(Stored.dailyTokenLimit))

\* The first deduction of a new account has taken the whole monthly allowance.
C26_Witness ==
  /\ DeductDone /\ IsNewRow(Pre) /\ Outcome.success
  /\ Len(ledger) = 1
  /\ TheCall.tokens = 10000
  /\ Outcome.freeTokensLeft = Some(0)

\* C30: once deductTokens has succeeded for a chat request, the bucket stays
\* charged by the cost and the 'usage' transaction stays in the ledger through
\* the provider switch, the provider call and the response, whether the request
\* ends with 400 (provider disabled, key not configured), 500 (provider call
\* failed) or 200; and a request without an authenticated user never changes
\* any account or the ledger.
C30_DeductionNeverReversed ==
  /\ [](PastDeduction =>
          /\ TheCall.tokens = ChatReq.tokenCost
          /\ BucketChargedBy(ChatReq.tokenCost)
          /\ OneUsageAppended)
  /\ []((Authenticated /\ ChatReq.forwarded) => PastDeduction)
  /\ [][((InChat /\ ChatReq.user = 0)
           \/ (~IsNull(proc'[1].req) /\ Val(proc'[1].req).user = 0)) =>
          (users' = users /\ ledger' = ledger)]_vars

\* A paid_tokens user has been answered 500 after the provider call failed,
\* and the purchased balance is lower by the cost.
C30_Witness ==
  /\ PastDeduction /\ ChatReq.status = 500
  /\ Pre.subscriptionStatus = "paid_tokens"
  /\ Stored.tokensRemaining = Pre.tokensRemaining - ChatReq.tokenCost
  /\ ledger[Len(ledger)].type = "usage"

====
